---------------------------- MODULE Spec2Model ----------------------------
(***************************************************************************)
(* Workflow orchestration and versioned record store of the roster         *)
(* processing backend: the LangGraph orchestrator (orchestrator.py), the   *)
(* Celery tasks that drive it (pipeline.py), the sequential pipeline       *)
(* (simple_pipeline.py), the versioner agent (agents/versioner.py) and the *)
(* HTTP handlers that create and queue jobs (main.py), over the tables of  *)
(* models.py.                                                              *)
(*                                                                         *)
(* A Python dict handed to an agent is a record that carries every key the *)
(* agent reads; a key the caller does not pass holds the default the       *)
(* agent's state.get(key, default) yields.  Each database transaction      *)
(* (one "with get_db_session()" block) is one atomic step.  The graph      *)
(* nodes receive and return the state as a dict, as they are written.      *)
(***************************************************************************)
EXTENDS Integers, Sequences, FiniteSets, TLC

\* Bounds of the model.
MaxJobs == 2
MaxTasks == 2
\* failures of the collaborators and of the store over a behaviour
MaxFaults == 1
\* the direct calls of the sequential pipeline the model follows
MaxDirect == 1
\* the resume_job tasks the model follows
MaxResumes == 1

\* Program constants.
worker_concurrency == 2

\* Python None for an id (ids start at 1, and None and 0 are both falsy).
Null == 0
\* Python None for an optional string.
None == "None"

-----------------------------------------------------------------------------
(* Rows and their validation (agents/validator.py).                        *)
(* A row is {"row_idx": i, "data": {...}}.  The data of a row maps the     *)
(* required field names to their values: "NPI" to a string of digits (a    *)
(* sequence of digits), the others to a string, "" when missing.  The rows *)
(* of the model carry no optional field (DOB, Term Date, Email, Phone,     *)
(* Address), so the checks of those never produce an issue.                *)

REQUIRED_FIELDS == <<"NPI", "Provider Name", "Specialty", "Effective Date">>

Npi1 == <<1, 2, 3, 4, 5, 6, 7, 8, 9, 7>>
Npi2 == <<1, 0, 0, 0, 0, 0, 0, 0, 0, 8>>
NpiEmpty == <<>>

Row(i, npi, name) ==
    [row_idx |-> i,
     data |-> [f \in {REQUIRED_FIELDS[k] : k \in 1..Len(REQUIRED_FIELDS)} |->
                  CASE f = "NPI" -> npi
                    [] f = "Provider Name" -> name
                    [] f = "Specialty" -> "Cardiology"
                    [] OTHER -> "2024-01-01"]]

_is_valid_npi_format(npi) == Len(npi) = 10

\* digits_of(d * 2) summed: the digit sum of a doubled digit.
DoubledDigitSum(d) == IF 2 * d >= 10 THEN 1 + (2 * d - 10) ELSE 2 * d

RECURSIVE LuhnSum(_, _)
\* the sum over the digits from the right: odd positions as they are, even
\* positions doubled; k counts positions from the right, starting at 1
LuhnSum(npi, k) ==
    IF k > Len(npi) THEN 0
    ELSE LET d == npi[Len(npi) - k + 1]
         IN  (IF k % 2 = 1 THEN d ELSE DoubledDigitSum(d)) + LuhnSum(npi, k + 1)

luhn_checksum(npi) == LuhnSum(npi, 1) % 10

_is_valid_npi_checksum(npi) ==
    IF ~ _is_valid_npi_format(npi) THEN FALSE ELSE luhn_checksum(npi) = 0

IssueOf(row_idx, field, level) == [row_idx |-> row_idx, field |-> field, level |-> level]

\* "not row_data.get(field, '').strip()"
IsBlank(row_data, field) ==
    IF field = "NPI" THEN row_data[field] = NpiEmpty ELSE row_data[field] = ""

_validate_row(row_data, row_idx, npi_set) ==
    LET missing == SelectSeq(REQUIRED_FIELDS, LAMBDA f : IsBlank(row_data, f))
        req == [k \in 1..Len(missing) |-> IssueOf(row_idx, missing[k], "error")]
        npi == row_data["NPI"]
        npiIssues ==
            IF npi = NpiEmpty THEN <<>>
            ELSE IF ~ _is_valid_npi_format(npi)
                 THEN <<IssueOf(row_idx, "NPI", "error")>>
            ELSE IF ~ _is_valid_npi_checksum(npi)
                 THEN <<IssueOf(row_idx, "NPI", "warning")>>
            ELSE IF npi \in npi_set
                 THEN <<IssueOf(row_idx, "NPI", "warning")>>
            ELSE <<>>
    IN  req \o npiIssues

RECURSIVE ValidateRows(_, _, _)
\* the loop of validator.run over the rows, threading npi_set
ValidateRows(rows, k, npi_set) ==
    IF k > Len(rows) THEN <<>>
    ELSE LET row == rows[k]
             npi == row.data["NPI"]
         IN  _validate_row(row.data, row.row_idx, npi_set)
             \o ValidateRows(rows, k + 1,
                             IF npi # NpiEmpty THEN npi_set \cup {npi} ELSE npi_set)

ErrorCount(issueSeq) == Cardinality({i \in 1..Len(issueSeq) : issueSeq[i].level = "error"})

\* validator.run: reads state["rows"]; no rows: no issues, error_count 0.
validator_run(agent_state) ==
    IF agent_state.rows = <<>>
    THEN [validation_issues |-> <<>>, error_count |-> 0, rows |-> agent_state.rows,
          needs_review |-> FALSE, error |-> None]
    ELSE LET all == ValidateRows(agent_state.rows, 1, {})
         IN  [validation_issues |-> all, error_count |-> ErrorCount(all),
              rows |-> agent_state.rows, needs_review |-> ErrorCount(all) > 0,
              error |-> None]

-----------------------------------------------------------------------------
(* The external collaborators (agents/*.py).  Each takes the dict it is    *)
(* handed and the outcome env of what lies outside the program (storage,   *)
(* the mail parser, the extractors, the spreadsheet writer).               *)

\* {} read as a classification: .get("artifacts", []) and .get("requires_vlm", False)
EmptyDict == [artifacts |-> FALSE, requires_vlm |-> FALSE]

\* The row lists an extraction can yield.
ExtractOutcomes ==
    { <<>>,
      <<Row(0, Npi1, "Dr. A")>>,
      <<Row(0, Npi1, "Dr. A"), Row(1, Npi1, "")>>,
      <<Row(0, Npi1, "Dr. A"), Row(0, Npi2, "Dr. B")>> }

\* intake_email.run: loads the job's email and the raw message; writes "artifacts"
intake_email_run(agent_state, env) ==
    IF agent_state.job_id = Null \/ env = "error"
    THEN [artifacts |-> agent_state.artifacts, error |-> "intake failed"]
    ELSE [artifacts |-> TRUE, error |-> None]

\* classifier.run: reads "artifacts", writes "classification"
classifier_run(agent_state, env) ==
    IF ~ agent_state.artifacts
    THEN [classification |-> agent_state.classification,
          error |-> "No artifacts found in state"]
    ELSE IF env = "error"
    THEN [classification |-> agent_state.classification, error |-> "classifier failed"]
    ELSE [classification |-> [artifacts |-> TRUE, requires_vlm |-> (env = "vlm")],
          error |-> None]

\* what the extractors can make of the artifacts: a failure or a row list
ExtractEnv ==
    {[ok |-> FALSE, rows |-> <<>>]} \cup {[ok |-> TRUE, rows |-> r] : r \in ExtractOutcomes}

\* extract_rule.run: reads "classification", writes "extracted_data" and "needs_vlm"
extract_rule_run(agent_state, env) ==
    IF ~ agent_state.classification.artifacts
    THEN [extracted_data |-> <<>>, has_extracted |-> FALSE,
          error |-> "No classified artifacts found"]
    ELSE IF ~ env.ok
    THEN [extracted_data |-> <<>>, has_extracted |-> FALSE, error |-> "extract failed"]
    ELSE [extracted_data |-> env.rows, has_extracted |-> TRUE, error |-> None]

\* extract_pdf.run: reads "classification"; never writes "extracted_data"
extract_pdf_run(agent_state, env) ==
    IF env = "error" THEN [agent_state EXCEPT !.error = "extract_pdf failed"]
    ELSE agent_state

\* vlm_client.run: its first statement names AGENT_RUNS_TOTAL, which the module
\* never defines or imports, so every call ends in the except branch
vlm_client_run(agent_state) ==
    [vlm_data |-> <<>>, error |-> "name 'AGENT_RUNS_TOTAL' is not defined"]

\* normalizer.run: reads and writes "rows"; a row keeps its row_idx, and the
\* field values of the model's rows are canonical already
normalizer_run(agent_state, env) ==
    IF agent_state.rows = <<>> THEN [rows |-> agent_state.rows, error |-> None]
    ELSE IF env = "error" THEN [rows |-> agent_state.rows, error |-> "normalizer failed"]
    ELSE [rows |-> agent_state.rows, error |-> None]

-----------------------------------------------------------------------------
(* The tables (models.py) and the runs in flight.                          *)

VARIABLES
    jobs,        \* jobs: id -> [status, current_version_id]
    versions,    \* versions: id -> [job_id, parent_version_id, author]
    records,     \* records, unique on (version_id, row_idx)
    issues,      \* issues, in insertion order
    exports,     \* exports, in insertion order
    audit_logs,  \* audit_logs, in insertion order
    tasks        \* the runs (Celery tasks, direct calls of the pipeline) and
                 \* the handler calls, each with what it answered

db == <<jobs, versions, records, issues, exports, audit_logs>>
vars == <<jobs, versions, records, issues, exports, audit_logs, tasks>>

JobIds == 1..Len(jobs)
VersionIds == 1..Len(versions)
TaskIds == 1..Len(tasks)

\* db.query(Record).filter(Record.version_id == v), as rows
RecordsOf(v) == {r \in records : r.version_id = v}

RECURSIVE RowsByIdx(_, _)
RowsByIdx(rs, k) ==
    IF rs = {} THEN <<>>
    ELSE IF \E r \in rs : r.row_idx = k
         THEN LET r == CHOOSE x \in rs : x.row_idx = k
              IN  <<[row_idx |-> r.row_idx, data |-> r.payload_json]>>
                  \o RowsByIdx(rs \ {r}, k + 1)
         ELSE RowsByIdx(rs, k + 1)

IssuesOf(v) == SelectSeq(issues, LAMBDA i : i.version_id = v)

\* the rows of an INSERT into records for version v
NewRecords(job_id, v, rows) ==
    {[job_id |-> job_id, version_id |-> v, row_idx |-> rows[i].row_idx,
      payload_json |-> rows[i].data] : i \in 1..Len(rows)}

\* uq_records_version_row: the INSERT of rows under v breaks the constraint
UniqueViolation(v, rows) ==
    \/ \E i, j \in 1..Len(rows) : i # j /\ rows[i].row_idx = rows[j].row_idx
    \/ \E i \in 1..Len(rows) : \E r \in records :
           r.version_id = v /\ r.row_idx = rows[i].row_idx

NewIssues(v, issueSeq) ==
    [i \in 1..Len(issueSeq) |->
        [version_id |-> v, row_idx |-> issueSeq[i].row_idx,
         field |-> issueSeq[i].field, level |-> issueSeq[i].level]]

\* ProcessingState / the state dict of process_job_simple
InitialState(version_id, rows, issueSeq) ==
    [version_id |-> version_id, artifacts |-> FALSE, route_map |-> EmptyDict,
     classification |-> EmptyDict, needs_vlm |-> FALSE, force_vlm_toggle |-> FALSE,
     rows |-> rows, issues |-> issueSeq, validation_issues |-> <<>>,
     error_count |-> 0, status |-> "processing", error |-> None,
     failed_agent |-> None]

NoResult == [status |-> None, version_id |-> Null, error |-> None]
FailedResult(error) == [status |-> "failed", version_id |-> Null, error |-> error]

NewTask(name, job_id, version_id) ==
    [name |-> name, job_id |-> job_id, arg_version_id |-> version_id,
     pc |-> "queued", state |-> InitialState(Null, <<>>, <<>>),
     version_id |-> Null, persist_version_id |-> Null,
     log |-> <<>>, faults |-> 0, result |-> NoResult]

Init ==
    /\ jobs = <<>>
    /\ versions = <<>>
    /\ records = {}
    /\ issues = <<>>
    /\ exports = <<>>
    /\ audit_logs = <<>>
    /\ tasks = <<>>

-----------------------------------------------------------------------------
(* Entry points: the HTTP handlers of main.py, the Celery tasks of         *)
(* pipeline.py and direct calls of simple_pipeline.py.                     *)

AuditEntry(job_id, actor, action, before, after, record_count, issue_count) ==
    [job_id |-> job_id, actor |-> actor, action |-> action, before |-> before,
     after |-> after, record_count |-> record_count, issue_count |-> issue_count]

IsGraph(tk) == tk.name \in {"process_job", "resume_job"}
IsSimple(tk) == tk.name \in {"process_job_simple", "resume_job_simple"}
Active(tk) == tk.pc \notin {"queued", "done"}

\* POST /ingest: the Email and Job rows, the initial Version, the audit entry,
\* and process_job.delay(job.id), which may fail to enqueue
ingest_eml_file(enqueue) ==
    /\ Len(jobs) < MaxJobs
    /\ enqueue => Len(tasks) < MaxTasks
    /\ LET j == Len(jobs) + 1
           v == Len(versions) + 1
       IN  /\ jobs' = Append(jobs, [status |-> "pending", current_version_id |-> v])
           /\ versions' = Append(versions,
                  [job_id |-> j, parent_version_id |-> Null, author |-> "system"])
           /\ audit_logs' = Append(audit_logs,
                  AuditEntry(j, "api", "create", Null, v, 0, 0))
           /\ tasks' = IF enqueue THEN Append(tasks, NewTask("process_job", j, Null))
                       ELSE tasks
    /\ UNCHANGED <<records, issues, exports>>

\* POST /jobs/{job_id}/process
process_job_endpoint(j) ==
    /\ j \in JobIds
    /\ jobs[j].status \in {"pending", "failed"}
    /\ Len(tasks) < MaxTasks
    /\ tasks' = Append(tasks, NewTask("process_job", j, Null))
    /\ UNCHANGED db

\* resume_job.delay(job_id, version_id): the Celery task, queued by name
resume_job_delay(j, v) ==
    /\ j \in JobIds /\ v \in VersionIds
    /\ Len(tasks) < MaxTasks
    /\ Cardinality({u \in TaskIds : tasks[u].name = "resume_job"}) < MaxResumes
    /\ tasks' = Append(tasks, NewTask("resume_job", j, v))
    /\ UNCHANGED db

\* process_job_simple(job_id) or resume_job_simple(job_id), which only calls
\* process_job_simple(job_id); one caller, so one direct call at a time
process_job_simple(name, j) ==
    /\ j \in JobIds
    /\ Len(tasks) < MaxTasks
    /\ Cardinality({u \in TaskIds : IsSimple(tasks[u])}) < MaxDirect
    /\ \A u \in TaskIds : IsSimple(tasks[u]) => tasks[u].pc = "done"
    /\ tasks' = Append(tasks, [NewTask(name, j, Null) EXCEPT !.pc = "s_intake"])
    /\ UNCHANGED db

RECURSIVE FaultCount(_)
\* the failures the runs 1..k have met
FaultCount(k) == IF k = 0 THEN 0 ELSE tasks[k].faults + FaultCount(k - 1)

MayFail == FaultCount(Len(tasks)) < MaxFaults
FailChoices == IF MayFail THEN BOOLEAN ELSE {FALSE}
Outcomes(S) == IF MayFail THEN S ELSE S \ {"error", "raise"}

RunningCelery == {u \in TaskIds : IsGraph(tasks[u]) /\ Active(tasks[u])}

\* a first transaction that set every job to processing
process_job_AllJobs(t) ==
    /\ t \in TaskIds /\ tasks[t].name = "process_job" /\ tasks[t].pc = "queued"
    /\ Cardinality(RunningCelery) < worker_concurrency
    /\ tasks[t].job_id \in JobIds
    /\ jobs' = [k \in JobIds |-> [jobs[k] EXCEPT !.status = "processing"]]
    /\ tasks' = [tasks EXCEPT ![t].pc = "intake",
                             ![t].state = InitialState(Null, <<>>, <<>>)]
    /\ UNCHANGED <<versions, records, issues, exports, audit_logs>>

\* process_job: the first transaction sets the job to processing, then run_graph
\* builds its initial state
process_job(t) ==
    /\ t \in TaskIds /\ tasks[t].name = "process_job" /\ tasks[t].pc = "queued"
    /\ Cardinality(RunningCelery) < worker_concurrency
    /\ LET j == tasks[t].job_id
       IN  IF j \in JobIds
           THEN /\ jobs' = [jobs EXCEPT ![j].status = "processing"]
                /\ tasks' = [tasks EXCEPT ![t].pc = "intake",
                                         ![t].state = InitialState(Null, <<>>, <<>>)]
           ELSE /\ jobs' = jobs
                /\ tasks' = [tasks EXCEPT ![t].pc = "done",
                                         ![t].result = [status |-> "raised",
                                                        version_id |-> Null,
                                                        error |-> "Job not found"]]
    /\ UNCHANGED <<versions, records, issues, exports, audit_logs>>

\* resume_job: the first transaction sets the job to processing
resume_job(t) ==
    /\ t \in TaskIds /\ tasks[t].name = "resume_job" /\ tasks[t].pc = "queued"
    /\ Cardinality(RunningCelery) < worker_concurrency
    /\ LET j == tasks[t].job_id
       IN  IF j \in JobIds
           THEN /\ jobs' = [jobs EXCEPT ![j].status = "processing"]
                /\ tasks' = [tasks EXCEPT ![t].pc = "resume_load"]
           ELSE /\ jobs' = jobs
                /\ tasks' = [tasks EXCEPT ![t].pc = "done",
                                         ![t].result = [status |-> "raised",
                                                        version_id |-> Null,
                                                        error |-> "Job not found"]]
    /\ UNCHANGED <<versions, records, issues, exports, audit_logs>>

\* resume_graph, lines 538-560: the state rebuilt from the version's rows
resume_graph(t) ==
    /\ t \in TaskIds /\ tasks[t].name = "resume_job" /\ tasks[t].pc = "resume_load"
    /\ LET j == tasks[t].job_id
           v == tasks[t].arg_version_id
       IN  IF j \in JobIds /\ v \in VersionIds
           THEN tasks' = [tasks EXCEPT
                    ![t].pc = "intake",
                    ![t].state = InitialState(v, RowsByIdx(RecordsOf(v), 0),
                                              [i \in 1..Len(IssuesOf(v)) |->
                                                  IssueOf(IssuesOf(v)[i].row_idx,
                                                          IssuesOf(v)[i].field,
                                                          IssuesOf(v)[i].level)])]
           ELSE tasks' = [tasks EXCEPT
                    ![t].pc = "done",
                    ![t].result = [status |-> "failed", version_id |-> Null,
                                   error |-> "not found"]]
    /\ UNCHANGED db

-----------------------------------------------------------------------------
(* The graph nodes of orchestrator.py.  Each builds the dict it hands to   *)
(* its agent, runs the agent and copies results back into the state.       *)

SetError(state, error, failed_agent) ==
    [state EXCEPT !.error = error, !.failed_agent = failed_agent, !.status = "failed"]

\* agent_state holds job_id, processing_notes, start_time
intake_node(state, job_id, env) ==
    LET agent_state == [job_id |-> job_id, artifacts |-> FALSE]
        result == intake_email_run(agent_state, env)
        s1 == [state EXCEPT !.artifacts = state.artifacts \/ result.artifacts]
    IN  IF result.error # None THEN SetError(s1, result.error, "intake_email") ELSE s1

\* agent_state holds job_id, processing_notes, artifacts
classify_node(state, env) ==
    LET agent_state == [artifacts |-> state.artifacts, classification |-> EmptyDict]
        result == classifier_run(agent_state, env)
        classification == result.classification
        s1 == [state EXCEPT !.route_map = classification,
                            !.needs_vlm = classification.requires_vlm]
    IN  IF result.error # None THEN SetError(s1, result.error, "classifier") ELSE s1

\* agent_state holds job_id, processing_notes, artifacts, route_map: the
\* classification travels under the key "route_map", and extract_rule reads
\* "classification"
extract_node(state, env, envPdf) ==
    LET agent_state == [classification |-> EmptyDict]
        r1 == extract_rule_run(agent_state, env)
        r2 == extract_pdf_run(r1, envPdf)
    IN  IF r1.error # None THEN SetError(state, r1.error, "extract")
        ELSE IF r2.error # None THEN SetError(state, r2.error, "extract")
        ELSE [state EXCEPT !.rows = r2.extracted_data]

\* vlm_data.get("extracted_data") is empty when the agent wrote no "vlm_data"
vlm_assist_node(state) ==
    LET agent_state == [extracted_data |-> state.rows]
        result == vlm_client_run(agent_state)
        s1 == IF result.vlm_data # <<>> THEN [state EXCEPT !.rows = result.vlm_data]
              ELSE state
    IN  IF result.error # None THEN SetError(s1, result.error, "vlm_client") ELSE s1

\* agent_state holds the rows under "extracted_data"; normalizer reads "rows"
\* and writes "rows", and the node reads "normalized_data"
normalize_node(state, env) ==
    LET agent_state == [rows |-> <<>>, extracted_data |-> state.rows]
        result == normalizer_run(agent_state, env)
        s1 == state
    IN  IF result.error # None THEN SetError(s1, result.error, "normalizer") ELSE s1

\* agent_state holds the rows under "normalized_data"; validator reads "rows"
ValidatorInput(state) == [rows |-> <<>>, normalized_data |-> state.rows]

validate_node(state) ==
    LET agent_state == ValidatorInput(state)
        result == validator_run(agent_state)
        s1 == [state EXCEPT !.issues = result.validation_issues]
        s2 == IF result.error_count > 0 THEN [s1 EXCEPT !.status = "needs_review"]
              ELSE s1
    IN  IF result.error # None THEN SetError(s2, result.error, "validator") ELSE s2

should_use_vlm(state) ==
    IF state.needs_vlm \/ state.force_vlm_toggle THEN "vlm_assist" ELSE "normalize"
\* a routing that went from validate straight to export
should_continue_after_validate_ToExport(state) ==
    IF state.status = "needs_review" THEN "persist" ELSE "export"

\* END is the hand-over to _persist_graph_results
should_continue_after_validate(state) ==
    IF state.status = "needs_review" THEN "persist" ELSE "version"

NodeStep(t, pc, state, stage, fault) ==
    tasks' = [tasks EXCEPT ![t].pc = pc, ![t].state = state,
                           ![t].log = Append(@, stage),
                           ![t].faults = @ + (IF fault THEN 1 ELSE 0)]

AtNode(t, pc) == t \in TaskIds /\ IsGraph(tasks[t]) /\ tasks[t].pc = pc

\* workflow.invoke enters the graph at its entry point.  The graph runtime is
\* not part of the repository: env "raise" is invoke raising before a node
\* has returned, which the except branch of run_graph and resume_graph turns
\* into a failed result without a call of _persist_graph_results
IntakeNode(t) ==
    /\ AtNode(t, "intake")
    /\ \E env \in Outcomes({"ok", "error", "raise"}) :
           IF env = "raise"
           THEN tasks' = [tasks EXCEPT ![t].pc = "done", ![t].faults = @ + 1,
                                       ![t].result = FailedResult("invoke raised")]
           ELSE NodeStep(t, "classify",
                         intake_node(tasks[t].state, tasks[t].job_id, env),
                         "intake", env = "error")
    /\ UNCHANGED db

ClassifyNode(t) ==
    /\ AtNode(t, "classify")
    /\ \E env \in Outcomes({"ok", "vlm", "error"}) :
           NodeStep(t, "extract", classify_node(tasks[t].state, env),
                    "classify", tasks[t].state.artifacts /\ env = "error")
    /\ UNCHANGED db

ExtractNode(t) ==
    /\ AtNode(t, "extract")
    /\ \E env \in ExtractEnv :
           LET state == extract_node(tasks[t].state, env, "ok")
           IN  NodeStep(t, should_use_vlm(state), state, "extract", FALSE)
    /\ UNCHANGED db

VlmAssistNode(t) ==
    /\ AtNode(t, "vlm_assist")
    /\ NodeStep(t, "normalize", vlm_assist_node(tasks[t].state), "vlm_assist", FALSE)
    /\ UNCHANGED db

NormalizeNode(t) ==
    /\ AtNode(t, "normalize")
    /\ \E env \in Outcomes({"ok", "error"}) :
           NodeStep(t, "validate", normalize_node(tasks[t].state, env),
                    "normalize", FALSE)
    /\ UNCHANGED db

ValidateNode(t) ==
    /\ AtNode(t, "validate")
    /\ LET state == validate_node(tasks[t].state)
       IN  NodeStep(t, should_continue_after_validate(state), state, "validate", FALSE)
    /\ UNCHANGED db

-----------------------------------------------------------------------------
(* Commit-Version: agents/versioner.py.  run() makes five transactions,    *)
(* each in a session of its own: _create_version, _store_records,          *)
(* _store_issues, _update_job_version, _create_audit_log.  fail is a       *)
(* failure of the store in that transaction.                               *)

\* the dict versioner.run is handed: version_node passes the rows under
\* "validated_data" and no "validation_stats"; process_job_simple passes its
\* whole state; neither holds "parent_version_id"
VersionerState(tk) ==
    IF IsGraph(tk)
    THEN [rows |-> <<>>, validation_issues |-> tk.state.issues, error_count |-> 0,
          parent_version_id |-> Null]
    ELSE [rows |-> tk.state.rows, validation_issues |-> tk.state.validation_issues,
          error_count |-> tk.state.error_count, parent_version_id |-> Null]

\* the caller's handling of what versioner.run returns.  version_node reads
\* result["version_info"], which the versioner never writes, and goes on to
\* export; process_job_simple raises on an error and returns failed
VersionerReturn(tk, error) ==
    IF IsGraph(tk)
    THEN LET s1 == [tk.state EXCEPT !.version_id = Null]
         IN  [tk EXCEPT !.pc = "export",
                        !.state = IF error # None THEN SetError(s1, error, "versioner")
                                  ELSE s1]
    ELSE IF error # None
         THEN [tk EXCEPT !.pc = "done",
                         !.state = [tk.state EXCEPT !.error = error,
                                                    !.failed_agent = "versioner"],
                         !.result = FailedResult(error)]
         ELSE [tk EXCEPT !.pc = "s_export",
                         !.state = [tk.state EXCEPT !.version_id = tk.version_id]]

InVersioner(t, pc) == t \in TaskIds /\ tasks[t].pc = pc

VersionerFails(t, error) ==
    tasks' = [tasks EXCEPT ![t] = VersionerReturn([tasks[t] EXCEPT !.faults = @ + 1], error)]

_create_version(t) ==
    /\ InVersioner(t, "version")
    /\ \E fail \in FailChoices :
         IF fail
         THEN /\ tasks' = [tasks EXCEPT ![t] =
                     VersionerReturn([tasks[t] EXCEPT !.faults = @ + 1,
                                                      !.log = Append(@, "version")],
                                     "store failure")]
              /\ versions' = versions
         ELSE /\ versions' = Append(versions,
                     [job_id |-> tasks[t].job_id,
                      parent_version_id |-> VersionerState(tasks[t]).parent_version_id,
                      author |-> "system"])
              /\ tasks' = [tasks EXCEPT ![t].pc = "v_records",
                                       ![t].version_id = Len(versions) + 1,
                                       ![t].log = Append(@, "version")]
    /\ UNCHANGED <<jobs, records, issues, exports, audit_logs>>

_store_records(t) ==
    /\ InVersioner(t, "v_records")
    /\ \E fail \in FailChoices :
         LET rows == VersionerState(tasks[t]).rows
             v == tasks[t].version_id
         IN  IF fail
             THEN VersionerFails(t, "store failure") /\ records' = records
             ELSE IF UniqueViolation(v, rows)
             THEN /\ tasks' = [tasks EXCEPT ![t] =
                         VersionerReturn(tasks[t], "uq_records_version_row")]
                  /\ records' = records
             ELSE /\ records' = records \cup NewRecords(tasks[t].job_id, v, rows)
                  /\ tasks' = [tasks EXCEPT ![t].pc = "v_issues"]
    /\ UNCHANGED <<jobs, versions, issues, exports, audit_logs>>

_store_issues(t) ==
    /\ InVersioner(t, "v_issues")
    /\ \E fail \in FailChoices :
         IF fail
         THEN VersionerFails(t, "store failure") /\ issues' = issues
         ELSE /\ issues' = issues \o NewIssues(tasks[t].version_id,
                                               VersionerState(tasks[t]).validation_issues)
              /\ tasks' = [tasks EXCEPT ![t].pc = "v_job"]
    /\ UNCHANGED <<jobs, versions, records, exports, audit_logs>>

\* error_count > 0: needs_review; otherwise the assignment names
\* JobStatus.COMPLETED, which the enumeration does not have: the AttributeError
\* rolls the session back and run() returns it as the error "COMPLETED"
_update_job_version(t) ==
    /\ InVersioner(t, "v_job")
    /\ \E fail \in FailChoices :
         LET j == tasks[t].job_id
             error_count == VersionerState(tasks[t]).error_count
         IN  IF fail
             THEN VersionerFails(t, "store failure") /\ jobs' = jobs
             ELSE IF j \notin JobIds
             THEN jobs' = jobs /\ tasks' = [tasks EXCEPT ![t].pc = "v_audit"]
             ELSE IF error_count > 0
             THEN /\ jobs' = [jobs EXCEPT ![j].current_version_id = tasks[t].version_id,
                                          ![j].status = "needs_review"]
                  /\ tasks' = [tasks EXCEPT ![t].pc = "v_audit"]
             ELSE /\ jobs' = jobs
                  /\ tasks' = [tasks EXCEPT ![t] = VersionerReturn(tasks[t], "COMPLETED")]
    /\ UNCHANGED <<versions, records, issues, exports, audit_logs>>

_create_audit_log(t) ==
    /\ InVersioner(t, "v_audit")
    /\ \E fail \in FailChoices :
         IF fail
         THEN VersionerFails(t, "store failure") /\ audit_logs' = audit_logs
         ELSE /\ audit_logs' = Append(audit_logs,
                     AuditEntry(tasks[t].job_id, "system", "version_created", Null,
                                tasks[t].version_id,
                                Len(VersionerState(tasks[t]).rows),
                                Len(VersionerState(tasks[t]).validation_issues)))
              /\ tasks' = [tasks EXCEPT ![t] = VersionerReturn(tasks[t], None)]
    /\ UNCHANGED <<jobs, versions, records, issues, exports>>

-----------------------------------------------------------------------------
(* Export (agents/exporter_excel.py) and the end of a graph run.           *)

\* exporter_excel.run: reads "job_id" and "version_id"; env is the outcome of
\* building and storing the spreadsheet and inserting the Export row
exporter_excel_run(agent_state, env) ==
    IF agent_state.job_id = Null \/ agent_state.version_id = Null
    THEN [export_created |-> FALSE,
          error |-> "Job ID and Version ID are required for export"]
    ELSE IF RecordsOf(agent_state.version_id) = {}
    THEN [export_created |-> FALSE, error |-> None]
    ELSE IF env = "error"
    THEN [export_created |-> FALSE, error |-> "export failed"]
    ELSE [export_created |-> TRUE, error |-> None]

_create_export_record(job_id, version_id) ==
    Append(exports, [job_id |-> job_id, version_id |-> version_id])

\* agent_state holds job_id, processing_notes, version_info, validated_data:
\* the version id travels under "version_info", and the exporter reads
\* "version_id"
export_node(state, job_id, env) ==
    LET agent_state == [job_id |-> job_id, version_id |-> Null,
                        version_info |-> state.version_id]
        result == exporter_excel_run(agent_state, env)
        s1 == [state EXCEPT !.status = "ready"]
    IN  [state |-> IF result.error # None
                   THEN SetError(s1, result.error, "exporter_excel") ELSE s1,
         export_created |-> result.export_created,
         version_id |-> agent_state.version_id]

ExportNode(t) ==
    /\ AtNode(t, "export")
    /\ \E env \in Outcomes({"ok", "error"}) :
         LET out == export_node(tasks[t].state, tasks[t].job_id, env)
         IN  /\ NodeStep(t, "persist", out.state, "export", FALSE)
             /\ exports' = IF out.export_created
                           THEN _create_export_record(tasks[t].job_id, out.version_id)
                           ELSE exports
    /\ UNCHANGED <<jobs, versions, records, issues, audit_logs>>

\* the Job.status _persist_graph_results writes for a final state
PersistedStatus(status) ==
    IF status = "ready" THEN "ready"
    ELSE IF status = "needs_review" THEN "needs_review"
    ELSE "failed"

\* _persist_graph_results, one transaction, and the result run_graph or
\* resume_graph builds after it.  An exception inside (the store failing, or
\* uq_records_version_row) rolls the transaction back and is raised again;
\* the caller's except branch returns status failed.
_persist_graph_results(t) ==
    /\ AtNode(t, "persist")
    /\ \E fail \in FailChoices :
         LET tk == tasks[t]
             j == tk.job_id
             state == tk.state
             v == IF state.version_id = Null THEN Len(versions) + 1
                  ELSE state.version_id
             raised(error, fault) ==
                 /\ tasks' = [tasks EXCEPT ![t].pc = "done",
                                          ![t].faults = @ + (IF fault THEN 1 ELSE 0),
                                          ![t].result = FailedResult(error)]
                 /\ UNCHANGED db
         IN  IF fail THEN raised("store failure", TRUE)
             ELSE IF j \notin JobIds
             THEN /\ tasks' = [tasks EXCEPT ![t].pc = "done",
                                           ![t].result = [status |-> state.status,
                                                          version_id |-> state.version_id,
                                                          error |-> state.error]]
                  /\ UNCHANGED db
             ELSE IF UniqueViolation(v, state.rows)
             THEN raised("uq_records_version_row", FALSE)
             ELSE /\ jobs' = [jobs EXCEPT ![j].status = PersistedStatus(state.status),
                                          ![j].current_version_id = v]
                  /\ versions' = IF state.version_id = Null
                                 THEN Append(versions,
                                          [job_id |-> j, parent_version_id |-> Null,
                                           author |-> "system"])
                                 ELSE versions
                  /\ records' = records \cup NewRecords(j, v, state.rows)
                  /\ issues' = issues \o NewIssues(v, state.issues)
                  /\ tasks' = [tasks EXCEPT ![t].pc = "done",
                                           ![t].persist_version_id = v,
                                           ![t].state = [state EXCEPT !.version_id = v],
                                           ![t].result = [status |-> state.status,
                                                          version_id |-> v,
                                                          error |-> state.error]]
                  /\ UNCHANGED <<exports, audit_logs>>

-----------------------------------------------------------------------------
(* The sequential pipeline of simple_pipeline.py: one dict handed from     *)
(* agent to agent; the first agent that reports an error ends the run.     *)

AtStep(t, pc) == t \in TaskIds /\ IsSimple(tasks[t]) /\ tasks[t].pc = pc

\* "state = agent(state); if state.get('error'): raise", and the except branch
SimpleStep(t, pc, state, stage, error, fault) ==
    tasks' = [tasks EXCEPT
        ![t].log = Append(@, stage),
        ![t].faults = @ + (IF fault THEN 1 ELSE 0),
        ![t].pc = IF error # None THEN "done" ELSE pc,
        ![t].state = IF error # None THEN [state EXCEPT !.error = error] ELSE state,
        ![t].result = IF error # None THEN FailedResult(error) ELSE @]

SimpleIntake(t) ==
    /\ AtStep(t, "s_intake")
    /\ \E env \in Outcomes({"ok", "error"}) :
         LET state == tasks[t].state
             result == intake_email_run([job_id |-> tasks[t].job_id,
                                         artifacts |-> state.artifacts], env)
         IN  SimpleStep(t, "s_classify", [state EXCEPT !.artifacts = result.artifacts],
                        "intake", result.error, env = "error")
    /\ UNCHANGED db

SimpleClassify(t) ==
    /\ AtStep(t, "s_classify")
    /\ \E env \in Outcomes({"ok", "vlm", "error"}) :
         LET state == tasks[t].state
             result == classifier_run(state, env)
         IN  SimpleStep(t, "s_extract",
                        [state EXCEPT !.classification = result.classification],
                        "classify", result.error, state.artifacts /\ env = "error")
    /\ UNCHANGED db

\* Step 3, the copy of "extracted_data" to "rows", and Step 4, which is skipped:
\* route_map is {} and has no "type"
SimpleExtract(t) ==
    /\ AtStep(t, "s_extract")
    /\ \E env \in {e \in ExtractEnv : e.ok \/ MayFail} :
         LET state == tasks[t].state
             result == extract_rule_run(state, env)
         IN  SimpleStep(t, "s_normalize",
                        IF result.has_extracted
                        THEN [state EXCEPT !.rows = result.extracted_data] ELSE state,
                        "extract", result.error,
                        state.classification.artifacts /\ ~ env.ok)
    /\ UNCHANGED db

SimpleNormalize(t) ==
    /\ AtStep(t, "s_normalize")
    /\ \E env \in Outcomes({"ok", "error"}) :
         LET state == tasks[t].state
             result == normalizer_run(state, env)
         IN  SimpleStep(t, "s_validate", [state EXCEPT !.rows = result.rows],
                        "normalize", result.error, state.rows # <<>> /\ env = "error")
    /\ UNCHANGED db

SimpleValidate(t) ==
    /\ AtStep(t, "s_validate")
    /\ LET state == tasks[t].state
           result == validator_run(state)
       IN  SimpleStep(t, "version",
                      [state EXCEPT !.validation_issues = result.validation_issues,
                                    !.error_count = result.error_count],
                      "validate", result.error, FALSE)
    /\ UNCHANGED db

\* Step 9 and the success return
SimpleExport(t) ==
    /\ AtStep(t, "s_export")
    /\ \E env \in Outcomes({"ok", "error"}) :
         LET state == tasks[t].state
             j == tasks[t].job_id
             result == exporter_excel_run([job_id |-> j,
                                           version_id |-> state.version_id], env)
         IN  /\ exports' = IF result.export_created
                           THEN _create_export_record(j, state.version_id)
                           ELSE exports
             /\ tasks' = [tasks EXCEPT
                    ![t].log = Append(@, "export"),
                    ![t].faults = @ + (IF result.error # None THEN 1 ELSE 0),
                    ![t].pc = "done",
                    ![t].state = IF result.error # None
                                 THEN [state EXCEPT !.error = result.error]
                                 ELSE [state EXCEPT !.status = "ready"],
                    ![t].result = IF result.error # None
                                  THEN FailedResult(result.error)
                                  ELSE [status |-> "ready",
                                        version_id |-> state.version_id,
                                        error |-> None]]
    /\ UNCHANGED <<jobs, versions, records, issues, audit_logs>>

-----------------------------------------------------------------------------
Next ==
    \/ \E enqueue \in BOOLEAN : ingest_eml_file(enqueue)
    \/ \E j \in JobIds : process_job_endpoint(j)
    \/ \E j \in JobIds, v \in VersionIds : resume_job_delay(j, v)
    \/ \E j \in JobIds : \E name \in {"process_job_simple", "resume_job_simple"} :
           process_job_simple(name, j)
    \/ \E t \in TaskIds : process_job(t)
    \/ \E t \in TaskIds : resume_job(t)
    \/ \E t \in TaskIds : resume_graph(t)
    \/ \E t \in TaskIds : IntakeNode(t)
    \/ \E t \in TaskIds : ClassifyNode(t)
    \/ \E t \in TaskIds : ExtractNode(t)
    \/ \E t \in TaskIds : VlmAssistNode(t)
    \/ \E t \in TaskIds : NormalizeNode(t)
    \/ \E t \in TaskIds : ValidateNode(t)
    \/ \E t \in TaskIds : _create_version(t)
    \/ \E t \in TaskIds : _store_records(t)
    \/ \E t \in TaskIds : _store_issues(t)
    \/ \E t \in TaskIds : _update_job_version(t)
    \/ \E t \in TaskIds : _create_audit_log(t)
    \/ \E t \in TaskIds : ExportNode(t)
    \/ \E t \in TaskIds : _persist_graph_results(t)
    \/ \E t \in TaskIds : SimpleIntake(t)
    \/ \E t \in TaskIds : SimpleClassify(t)
    \/ \E t \in TaskIds : SimpleExtract(t)
    \/ \E t \in TaskIds : SimpleNormalize(t)
    \/ \E t \in TaskIds : SimpleValidate(t)
    \/ \E t \in TaskIds : SimpleExport(t)

Spec == Init /\ [][Next]_vars

-----------------------------------------------------------------------------
(* The handlers of main.py that act on a job's versions.  A call is kept   *)
(* in tasks with the HTTP status it answers.  An exception inside          *)
(* get_db_session() rolls the open transaction back.                       *)

\* the handler calls the model follows
MaxCalls == 2
\* the runs among them, in the specifications that bound runs
MaxRuns == 1

RunCount == Cardinality({t \in TaskIds : IsGraph(tasks[t]) \/ IsSimple(tasks[t])})

\* a handler call that has answered
Answered(name, job_id, version_id, status) ==
    [NewTask(name, job_id, version_id) EXCEPT
        !.pc = "done",
        !.faults = IF status = "500" THEN 1 ELSE 0,
        !.result = [status |-> status, version_id |-> version_id, error |-> None]]

\* the form of an edit: "field" and the stripped "value"
EditInputs ==
    { [field |-> "Provider Name", value |-> "Dr. Z"],
      [field |-> "Provider Name", value |-> ""],
      [field |-> "NPI", value |-> Npi2] }

\* _validate_record_data: the required fields, then the NPI format
_validate_record_data(record_data, row_idx) ==
    LET missing == SelectSeq(REQUIRED_FIELDS, LAMBDA f : IsBlank(record_data, f))
        req == [k \in 1..Len(missing) |-> IssueOf(row_idx, missing[k], "error")]
        npi == record_data["NPI"]
    IN  req \o (IF npi # NpiEmpty /\ Len(npi) # 10
                THEN <<IssueOf(row_idx, "NPI", "error")>> ELSE <<>>)

\* "record.payload_json[field] = new_value" on a loaded Record.  payload_json
\* is Column(JSON) with no mutation tracking: the assignment changes the
\* object in the session and marks nothing dirty, so the flush writes no
\* UPDATE and the row in the table keeps its payload.
LoadedPayload(payload_json, field, new_value) ==
    [payload_json EXCEPT ![field] = new_value]

\* what a column that tracks in-place changes would store instead
StoredPayload_Tracked(payload_json, field, new_value) ==
    [payload_json EXCEPT ![field] = new_value]

StoredPayload(payload_json, field, new_value) == payload_json

\* the new Version named as its own parent
EditParent_Self(j) == Len(versions) + 1

\* parent_version_id of the Version an edit creates
EditParent(j) == jobs[j].current_version_id

\* POST /ui/jobs/{job_id}/edit up to its first commit: the new Version, the
\* copies of the current records with the edited one, and the job's pointer.
\* The session expires its objects at the commit, so the payload handed to
\* _validate_record_data afterwards is the one read back from the table.
ui_edit_record(j, row_idx, inp) ==
    /\ Len(tasks) < MaxCalls
    /\ \E fail \in FailChoices :
         IF j \notin JobIds
         THEN /\ tasks' = Append(tasks, Answered("ui_edit_record", j, Null, "404"))
              /\ UNCHANGED db
         ELSE LET cur == jobs[j].current_version_id
                  current == RecordsOf(cur)
                  v == Len(versions) + 1
              IN  IF cur = Null \/ ~ \E r \in current : r.row_idx = row_idx
                  THEN /\ tasks' = Append(tasks,
                              Answered("ui_edit_record", j, Null, "404"))
                       /\ UNCHANGED db
                  ELSE IF fail
                  THEN /\ tasks' = Append(tasks,
                              Answered("ui_edit_record", j, Null, "500"))
                       /\ UNCHANGED db
                  ELSE LET updated_record == CHOOSE r \in current : r.row_idx = row_idx
                           stored == [updated_record EXCEPT !.payload_json =
                                         StoredPayload(@, inp.field, inp.value)]
                           copies ==
                               {[job_id |-> j, version_id |-> v, row_idx |-> r.row_idx,
                                 payload_json |->
                                     IF r = updated_record
                                     THEN LoadedPayload(r.payload_json, inp.field,
                                                        inp.value)
                                     ELSE r.payload_json] : r \in current}
                       IN  /\ versions' = Append(versions,
                                  [job_id |-> j, parent_version_id |-> EditParent(j),
                                   author |-> "user"])
                           /\ records' = ((records \ {updated_record}) \cup {stored})
                                             \cup copies
                           /\ jobs' = [jobs EXCEPT ![j].current_version_id = v]
                           /\ tasks' = Append(tasks,
                                  [NewTask("ui_edit_record", j, Null) EXCEPT
                                      !.pc = "e_issues",
                                      !.version_id = v,
                                      !.state.validation_issues =
                                          _validate_record_data(stored.payload_json,
                                                                row_idx)])
                           /\ UNCHANGED <<issues, exports, audit_logs>>

\* the second commit of ui_edit_record: the issues of the re-validation
ui_edit_record_issues(t) ==
    /\ t \in TaskIds /\ tasks[t].name = "ui_edit_record" /\ tasks[t].pc = "e_issues"
    /\ \E fail \in FailChoices :
         IF fail
         THEN /\ issues' = issues
              /\ tasks' = [tasks EXCEPT ![t].pc = "done", ![t].faults = @ + 1,
                                       ![t].result.status = "500"]
         ELSE /\ issues' = issues \o NewIssues(tasks[t].version_id,
                                               tasks[t].state.validation_issues)
              /\ tasks' = [tasks EXCEPT ![t].pc = "done",
                                       ![t].result = [status |-> "200",
                                                      version_id |-> tasks[t].version_id,
                                                      error |-> None]]
    /\ UNCHANGED <<jobs, versions, records, exports, audit_logs>>

\* the version looked up by its id alone
RollbackFound_AnyJob(j, v) == j \in JobIds /\ v \in VersionIds

\* the two queries of rollback_to_version: the job, and the version among
\* the versions of that job
RollbackFound(j, v) == j \in JobIds /\ v \in VersionIds /\ versions[v].job_id = j

\* a rollback that also discarded the Records and Issues committed after
\* the target
rollback_to_version_Destructive(j, v) ==
    /\ Len(tasks) < MaxCalls
    /\ RollbackFound(j, v)
    /\ jobs' = [jobs EXCEPT ![j].current_version_id = v]
    /\ records' = {r \in records : r.version_id <= v}
    /\ issues' = SelectSeq(issues, LAMBDA i : i.version_id <= v)
    /\ audit_logs' = Append(audit_logs, AuditEntry(j, "user", "rollback", v, v, 0, 0))
    /\ tasks' = Append(tasks, Answered("rollback_to_version", j, v, "200"))
    /\ UNCHANGED <<versions, exports>>

\* POST /jobs/{job_id}/versions/{version_id}/rollback.  before_json is built
\* after the assignment, so it holds the new pointer.
rollback_to_version(j, v) ==
    /\ Len(tasks) < MaxCalls
    /\ \E fail \in FailChoices :
         IF ~ RollbackFound(j, v)
         THEN /\ tasks' = Append(tasks, Answered("rollback_to_version", j, v, "404"))
              /\ UNCHANGED db
         ELSE IF fail
         THEN /\ tasks' = Append(tasks, Answered("rollback_to_version", j, v, "500"))
              /\ UNCHANGED db
         ELSE /\ jobs' = [jobs EXCEPT ![j].current_version_id = v]
              /\ audit_logs' = Append(audit_logs,
                     AuditEntry(j, "user", "rollback", v, v, 0, 0))
              /\ tasks' = Append(tasks, Answered("rollback_to_version", j, v, "200"))
              /\ UNCHANGED <<versions, records, issues, exports>>

\* POST /jobs/{job_id}/export: the spreadsheet of the current version's
\* records; env is the outcome of building and storing it
create_export(j) ==
    /\ Len(tasks) < MaxCalls
    /\ \E env \in Outcomes({"ok", "error"}) :
         IF j \notin JobIds
         THEN /\ tasks' = Append(tasks, Answered("create_export", j, Null, "404"))
              /\ UNCHANGED db
         ELSE LET cur == jobs[j].current_version_id
              IN  IF cur = Null
                  THEN /\ tasks' = Append(tasks,
                              Answered("create_export", j, Null, "404"))
                       /\ UNCHANGED db
                  ELSE IF RecordsOf(cur) = {}
                  THEN /\ tasks' = Append(tasks,
                              Answered("create_export", j, cur, "400"))
                       /\ UNCHANGED db
                  ELSE IF env = "error"
                  THEN /\ tasks' = Append(tasks,
                              Answered("create_export", j, cur, "500"))
                       /\ UNCHANGED db
                  ELSE /\ exports' = _create_export_record(j, cur)
                       /\ tasks' = Append(tasks,
                              Answered("create_export", j, cur, "200"))
                       /\ UNCHANGED <<jobs, versions, records, issues, audit_logs>>

\* the jobs the query of check_stuck_jobs looks at: pending or processing
Sweepable == {j \in JobIds : jobs[j].status \in {"pending", "processing"}}

\* POST /jobs/check-timeouts.  stuck_jobs is what the query returns: which of
\* the pending and processing jobs are older than the cutoff is the clock's
\* choice.  The loop body starts with "job.status = JobStatus.ERROR", and the
\* enumeration has no ERROR: with a stuck job the AttributeError is caught,
\* the session rolled back and 500 answered; with none the commit is empty.
check_stuck_jobs(stuck_jobs) ==
    /\ Len(tasks) < MaxCalls
    /\ stuck_jobs \subseteq Sweepable
    /\ tasks' = Append(tasks,
           ("stuck_jobs" :> stuck_jobs) @@
           [Answered("check_stuck_jobs", Null, Null,
                     IF stuck_jobs = {} THEN "200" ELSE "500") EXCEPT !.faults = 0])
    /\ UNCHANGED db

\* The runs of Next, one at a time, with the handlers beside them.
NextOps ==
    \/ \E enqueue \in BOOLEAN :
           (enqueue => RunCount < MaxRuns) /\ ingest_eml_file(enqueue)
    \/ \E j \in JobIds : RunCount < MaxRuns /\ process_job_endpoint(j)
    \/ \E j \in JobIds, v \in VersionIds : RunCount < MaxRuns /\ resume_job_delay(j, v)
    \/ \E j \in JobIds : \E name \in {"process_job_simple", "resume_job_simple"} :
           RunCount < MaxRuns /\ process_job_simple(name, j)
    \/ \E t \in TaskIds : process_job(t)
    \/ \E t \in TaskIds : resume_job(t)
    \/ \E t \in TaskIds : resume_graph(t)
    \/ \E t \in TaskIds : IntakeNode(t)
    \/ \E t \in TaskIds : ClassifyNode(t)
    \/ \E t \in TaskIds : ExtractNode(t)
    \/ \E t \in TaskIds : VlmAssistNode(t)
    \/ \E t \in TaskIds : NormalizeNode(t)
    \/ \E t \in TaskIds : ValidateNode(t)
    \/ \E t \in TaskIds : _create_version(t)
    \/ \E t \in TaskIds : _store_records(t)
    \/ \E t \in TaskIds : _store_issues(t)
    \/ \E t \in TaskIds : _update_job_version(t)
    \/ \E t \in TaskIds : _create_audit_log(t)
    \/ \E t \in TaskIds : ExportNode(t)
    \/ \E t \in TaskIds : _persist_graph_results(t)
    \/ \E t \in TaskIds : SimpleIntake(t)
    \/ \E t \in TaskIds : SimpleClassify(t)
    \/ \E t \in TaskIds : SimpleExtract(t)
    \/ \E t \in TaskIds : SimpleNormalize(t)
    \/ \E t \in TaskIds : SimpleValidate(t)
    \/ \E t \in TaskIds : SimpleExport(t)
    \/ \E j \in JobIds, row_idx \in 0..1, inp \in EditInputs :
           ui_edit_record(j, row_idx, inp)
    \/ \E t \in TaskIds : ui_edit_record_issues(t)
    \/ \E j \in JobIds, v \in 1..(Len(versions) + 1) : rollback_to_version(j, v)
    \/ \E j \in JobIds : create_export(j)
    \/ \E stuck_jobs \in SUBSET JobIds : check_stuck_jobs(stuck_jobs)

SpecOps == Init /\ [][NextOps]_vars

-----------------------------------------------------------------------------
(* Cancellation.  No handler or task of the program writes the status      *)
(* "cancelled" (JobStatus.CANCELLED, models.py 32); the request is modelled *)
(* from the specification: it sets the status of a pending or processing   *)
(* job to "cancelled" and touches nothing else.                            *)

cancel_job(j) ==
    /\ j \in JobIds
    /\ jobs[j].status \in {"pending", "processing"}
    /\ jobs' = [jobs EXCEPT ![j].status = "cancelled"]
    /\ UNCHANGED <<versions, records, issues, exports, audit_logs, tasks>>

NextCancel ==
    \/ NextOps
    \/ \E j \in JobIds : cancel_job(j)

SpecCancel == Init /\ [][NextCancel]_vars

-----------------------------------------------------------------------------
(* Properties.                                                             *)

\* C1: when the versioner's run fails in _store_issues, after the Records of
\* its new Version were inserted, the Version it created is not visible for
\* the job afterwards and the job's current_version_id does not name it.
C1_CommitAtomic ==
    [][\A t \in TaskIds :
          (tasks[t].pc = "v_issues" /\ tasks'[t].pc \notin {"v_issues", "v_job"}
           /\ RecordsOf(tasks[t].version_id) # {})
          => LET v == tasks[t].version_id
                 j == tasks[t].job_id
             IN  /\ ~ (v \in 1..Len(versions') /\ versions'[v].job_id = j)
                 /\ RecordsOf(v)' = {}
                 /\ jobs'[j].current_version_id # v]_vars

C4_AtMostOneActiveRun ==
    \A t, u \in TaskIds :
        (t # u /\ tasks[t].name = "process_job" /\ tasks[u].name = "process_job"
         /\ tasks[t].job_id = tasks[u].job_id)
        => ~ (Active(tasks[t]) /\ Active(tasks[u]))

\* C5: once a stage of a run has set error, no further stage of that run is
\* executed.
C5_ShortCircuit ==
    [][\A t \in TaskIds :
          tasks[t].state.error # None => tasks'[t].log = tasks[t].log]_vars

\* C6: when a run ends and one of its stages has set error, the status it
\* returns is failed and the Job's status in the store is failed.
C6_ErrorMeansFailed ==
    [][\A t \in TaskIds :
          (tasks[t].pc # "done" /\ tasks'[t].pc = "done"
           /\ tasks'[t].state.error # None)
          => /\ tasks'[t].result.status = "failed"
             /\ jobs'[tasks[t].job_id].status = "failed"]_vars

\* C7: a run in which a stage has set error before Commit-Version was reached
\* creates no Version from then on.
C7_FailedRunCommitsNothing ==
    [][\A t \in TaskIds :
          (tasks[t].state.error # None
           /\ \A k \in 1..Len(tasks[t].log) : tasks[t].log[k] # "version")
          => /\ tasks'[t].version_id = Null
             /\ tasks'[t].persist_version_id = Null]_vars

\* C8: a Run that is the only run of its job, in a behaviour where nothing
\* outside the program failed, over rows with distinct row_idx and a Validate
\* output without error-severity Issues, returns ready; it has created exactly
\* one Version, which is the returned version id and the Job's
\* current_version_id, and an Export row of that Version exists.
C8_FreshRunReady ==
    \A t \in TaskIds :
        LET tk == tasks[t]
            rows == tk.state.rows
            errors == IF IsGraph(tk) THEN ErrorCount(tk.state.issues)
                      ELSE tk.state.error_count
            created == {tk.version_id, tk.persist_version_id} \ {Null}
        IN  (/\ tk.pc = "done"
             /\ tk.name \in {"process_job", "process_job_simple"}
             /\ FaultCount(Len(tasks)) = 0
             /\ \A u \in TaskIds : tasks[u].job_id = tk.job_id => u = t
             /\ \A a, b \in 1..Len(rows) : a # b => rows[a].row_idx # rows[b].row_idx
             /\ errors = 0)
            => /\ tk.result.status = "ready"
               /\ created = {tk.result.version_id}
               /\ jobs[tk.job_id].current_version_id = tk.result.version_id
               /\ \E k \in 1..Len(exports) :
                      exports[k].version_id = tk.result.version_id

\* C9: every Version a resume_job(job_id, version_id) run has created has
\* parent_version_id = version_id.
C9_ResumeParent ==
    \A t \in TaskIds :
        tasks[t].name = "resume_job"
        => \A v \in {tasks[t].version_id, tasks[t].persist_version_id} \ {Null} :
               versions[v].parent_version_id = tasks[t].arg_version_id

\* C10: a resume run executes none of the stages before validate, and the
\* rows its validator is handed are the Records loaded from the given Version.
C10_ResumeAtValidate ==
    \A t \in TaskIds :
        tasks[t].name \in {"resume_job", "resume_job_simple"}
        => /\ \A k \in 1..Len(tasks[t].log) :
                  tasks[t].log[k] \notin
                      {"intake", "classify", "extract", "vlm_assist", "normalize"}
           /\ (tasks[t].name = "resume_job" /\ tasks[t].pc = "validate")
              => ValidatorInput(tasks[t].state).rows
                     = RowsByIdx(RecordsOf(tasks[t].arg_version_id), 0)

\* a Version some operation is still writing: the versioner between its
\* transactions, or an edit between its two commits
UnderConstruction(v) ==
    \E t \in TaskIds :
        /\ tasks[t].version_id = v
        /\ tasks[t].pc \in {"v_records", "v_issues", "v_job", "v_audit", "e_issues"}

\* C11: once the operation that created a Version has finished, no run,
\* resume, manual edit, rollback or export adds, removes or changes a Record
\* or an Issue of that Version.
C11_CommittedVersionImmutable ==
    [][\A v \in VersionIds :
           ~ UnderConstruction(v) =>
               /\ {r \in records' : r.version_id = v} = RecordsOf(v)
               /\ SelectSeq(issues', LAMBDA i : i.version_id = v) = IssuesOf(v)]_vars

\* an edit has answered, and the Version it started from still holds the
\* payload the edit replaced in the new Version
C11_Witness ==
    \E t \in TaskIds :
        /\ tasks[t].name = "ui_edit_record" /\ tasks[t].pc = "done"
        /\ tasks[t].result.status = "200"
        /\ LET v == tasks[t].version_id
               p == versions[v].parent_version_id
           IN  /\ RecordsOf(p) # {}
               /\ \E r \in RecordsOf(p) : \E c \in RecordsOf(v) :
                      r.row_idx = c.row_idx /\ r.payload_json # c.payload_json

\* C12: all Records have pairwise distinct (version_id, row_idx), and a commit
\* that failed on a duplicate (version_id, row_idx) has left no Version of
\* its own behind (and so no Record or Issue under one).
C12_DuplicateFailsWholeCommit ==
    /\ \A r1, r2 \in records :
           (r1.version_id = r2.version_id /\ r1.row_idx = r2.row_idx) => r1 = r2
    /\ \A t \in TaskIds :
           tasks[t].result.error = "uq_records_version_row" =>
               /\ tasks[t].version_id \notin VersionIds
               /\ tasks[t].persist_version_id \notin VersionIds

\* C13: a rollback that succeeds changes, of the job, only the pointer: every
\* Version, Record and Issue is afterwards what it was before, those created
\* after the target included, and no other Job row changes.
C13_RollbackOnlyMovesPointer ==
    [][\A j \in JobIds :
           (/\ Len(tasks') = Len(tasks) + 1
            /\ tasks'[Len(tasks')].name = "rollback_to_version"
            /\ tasks'[Len(tasks')].job_id = j
            /\ tasks'[Len(tasks')].result.status = "200")
           => /\ versions' = versions
              /\ records' = records
              /\ issues' = issues
              /\ jobs' = [jobs EXCEPT ![j].current_version_id =
                                          tasks'[Len(tasks')].arg_version_id]]_vars

\* a rollback has moved a job back to a Version older than one that holds
\* Records, and those Records are still there
C13_Witness ==
    \E t \in TaskIds :
        /\ tasks[t].name = "rollback_to_version" /\ tasks[t].result.status = "200"
        /\ jobs[tasks[t].job_id].current_version_id = tasks[t].arg_version_id
        /\ \E w \in VersionIds :
               /\ w > tasks[t].arg_version_id
               /\ versions[w].job_id = tasks[t].job_id
               /\ RecordsOf(w) # {}

\* C14: a rollback answers success only when the target is a Version of the
\* job; when the target belongs to another job or does not exist it answers
\* an error, and the job's pointer and the audit log stay as they were.
C14_RollbackValidatesTarget ==
    [][\A j \in JobIds :
           (/\ Len(tasks') = Len(tasks) + 1
            /\ tasks'[Len(tasks')].name = "rollback_to_version"
            /\ tasks'[Len(tasks')].job_id = j)
           => LET v == tasks'[Len(tasks')].arg_version_id
                  ofJob == v \in VersionIds /\ versions[v].job_id = j
                  status == tasks'[Len(tasks')].result.status
              IN  /\ status = "200" => ofJob
                  /\ ~ ofJob => /\ status # "200"
                                /\ jobs'[j].current_version_id =
                                       jobs[j].current_version_id
                                /\ audit_logs' = audit_logs]_vars

\* a rollback to a Version of another job has answered 404
C14_Witness ==
    \E t \in TaskIds :
        /\ tasks[t].name = "rollback_to_version" /\ tasks[t].result.status = "404"
        /\ tasks[t].arg_version_id \in VersionIds
        /\ versions[tasks[t].arg_version_id].job_id # tasks[t].job_id

\* C15: every Job's current_version_id is null or the id of an existing
\* Version of that same Job.
C15_PointerInOwnVersions ==
    \A j \in JobIds :
        LET cur == jobs[j].current_version_id
        IN  cur = Null \/ (cur \in VersionIds /\ versions[cur].job_id = j)

\* a resume of one job from a Version of another job has persisted its
\* result, and the job points at the Version that run created
C15_Witness ==
    \E t \in TaskIds :
        /\ tasks[t].name = "resume_job" /\ tasks[t].pc = "done"
        /\ tasks[t].arg_version_id \in VersionIds
        /\ versions[tasks[t].arg_version_id].job_id # tasks[t].job_id
        /\ tasks[t].persist_version_id # Null
        /\ jobs[tasks[t].job_id].current_version_id = tasks[t].persist_version_id

\* C16: following parent_version_id from any Version ends at null after
\* finitely many steps: every parent is null or an existing Version, and
\* every non-empty set of Versions has a member whose parent lies outside it
\* (no cycle).
C16_ParentChainAcyclic ==
    /\ \A v \in VersionIds : versions[v].parent_version_id \in VersionIds \cup {Null}
    /\ \A S \in SUBSET VersionIds :
           S # {} => \E v \in S : versions[v].parent_version_id \notin S

\* an edit has created a Version whose parent is the Version it started from
C16_Witness ==
    \E v \in VersionIds :
        /\ versions[v].author = "user"
        /\ versions[v].parent_version_id \in VersionIds
        /\ versions[versions[v].parent_version_id].parent_version_id = Null

\* C17: a step changes an existing Job's current_version_id only if it is the
\* versioner's _update_job_version (Commit-Version) for that job or a
\* successful rollback of that job; stage nodes, the persistence of a run's
\* result, manual edit, export and sweep leave it as it was.
C17_SoleWritersOfPointer ==
    [][\A j \in JobIds :
           jobs'[j].current_version_id # jobs[j].current_version_id =>
               \/ \E t \in TaskIds :
                      /\ tasks[t].pc = "v_job" /\ tasks[t].job_id = j
                      /\ tasks'[t].pc # "v_job"
               \/ /\ Len(tasks') = Len(tasks) + 1
                  /\ tasks'[Len(tasks')].name = "rollback_to_version"
                  /\ tasks'[Len(tasks')].job_id = j
                  /\ tasks'[Len(tasks')].result.status = "200"]_vars

\* C18: a step appends one AuditLog entry for a job exactly when it completes
\* a mutating action on that job (the job's creation, a manual edit, a
\* rollback, a version commit by the versioner or by the persistence of a
\* run's result, the failure of a run), and none otherwise: the entries of a
\* job count its mutating actions.
C18_OneAuditEntryPerMutation ==
    [][\A j \in 1..Len(jobs') :
           LET count(log) == Cardinality({i \in 1..Len(log) : log[i].job_id = j})
               last == tasks'[Len(tasks')]
               created == j > Len(jobs)
               edited == /\ Len(versions') > Len(versions)
                         /\ versions'[Len(versions')].job_id = j
                         /\ versions'[Len(versions')].author = "user"
               rolledBack == /\ Len(tasks') = Len(tasks) + 1
                             /\ last.name = "rollback_to_version"
                             /\ last.job_id = j /\ last.result.status = "200"
               committed ==
                   \E t \in TaskIds :
                       /\ tasks[t].job_id = j
                       /\ \/ /\ tasks[t].pc = "v_audit" /\ tasks'[t].pc # "v_audit"
                             /\ tasks'[t].state.error = None
                          \/ /\ tasks[t].pc = "persist"
                             /\ Len(versions') > Len(versions)
               failed ==
                   \E t \in TaskIds :
                       /\ tasks[t].job_id = j
                       /\ IsGraph(tasks[t]) \/ IsSimple(tasks[t])
                       /\ tasks[t].pc # "done" /\ tasks'[t].pc = "done"
                       /\ tasks'[t].result.status = "failed"
               mutating == created \/ edited \/ rolledBack \/ committed \/ failed
           IN  count(audit_logs') =
                   count(audit_logs) + (IF mutating THEN 1 ELSE 0)]_vars

\* C19: while a run of a job is in flight and the job's status is cancelled,
\* no step overwrites the status with ready, needs_review or failed, and no
\* step adds a Version the system commits for that job.
C19_CancelledRunAborts ==
    [][\A t \in TaskIds :
           LET j == tasks[t].job_id
           IN  (/\ IsGraph(tasks[t]) \/ IsSimple(tasks[t])
                /\ Active(tasks[t])
                /\ j \in JobIds
                /\ jobs[j].status = "cancelled")
               => /\ jobs'[j].status \notin {"ready", "needs_review", "failed"}
                  /\ \A v \in (Len(versions) + 1)..Len(versions') :
                         ~ (versions'[v].job_id = j /\ versions'[v].author = "system")]_vars

\* C20: a sweep leaves every job it found processing and older than the
\* threshold with status failed, and appends a timeout AuditLog entry for it.
C20_SweepFailsStuckJobs ==
    [][(/\ Len(tasks') = Len(tasks) + 1
        /\ tasks'[Len(tasks')].name = "check_stuck_jobs")
       => \A j \in tasks'[Len(tasks')].stuck_jobs :
              jobs[j].status = "processing" =>
                  /\ jobs'[j].status = "failed"
                  /\ \E i \in (Len(audit_logs) + 1)..Len(audit_logs') :
                         /\ audit_logs'[i].job_id = j
                         /\ audit_logs'[i].action = "job_timeout"]_vars

\* C21: a step of a run, resume, commit or rollback invoked for one job
\* leaves every other job's status and pointer, and the Versions, Records
\* and Issues of every other job, as they were.
C21_JobsIsolated ==
    [][\A b \in JobIds :
           LET actors == IF Len(tasks') > Len(tasks)
                         THEN {tasks'[Len(tasks')].job_id}
                         ELSE {tasks[t].job_id :
                                  t \in {u \in TaskIds : tasks'[u] # tasks[u]}}
               ofB(vs, v) == v \in 1..Len(vs) /\ vs[v].job_id = b
           IN  (actors # {} /\ b \notin actors) =>
                   /\ jobs'[b] = jobs[b]
                   /\ \A v \in 1..Len(versions') :
                          ofB(versions', v) => (v \in VersionIds /\ versions'[v] = versions[v])
                   /\ {r \in records' : r.job_id = b \/ ofB(versions', r.version_id)}
                          = {r \in records : r.job_id = b \/ ofB(versions, r.version_id)}
                   /\ SelectSeq(issues', LAMBDA i : ofB(versions', i.version_id))
                          = SelectSeq(issues, LAMBDA i : ofB(versions, i.version_id))]_vars

\* a resume of one job from a Version of another job, one that holds
\* Records, has persisted its result under a Version of its own
C21_Witness ==
    \E t \in TaskIds :
        /\ tasks[t].name = "resume_job" /\ tasks[t].pc = "done"
        /\ tasks[t].arg_version_id \in VersionIds
        /\ versions[tasks[t].arg_version_id].job_id # tasks[t].job_id
        /\ RecordsOf(tasks[t].arg_version_id) # {}
        /\ tasks[t].persist_version_id \in VersionIds
        /\ RecordsOf(tasks[t].persist_version_id) # {}

C23_DuplicateNpiIsError ==
    \A t \in TaskIds :
        (IsSimple(tasks[t]) /\ \E k \in 1..Len(tasks[t].log) : tasks[t].log[k] = "validate")
        => LET rows == tasks[t].state.rows
               found == tasks[t].state.validation_issues
               onNpi(k) == {i \in 1..Len(found) :
                               /\ found[i].row_idx = rows[k].row_idx
                               /\ found[i].field = "NPI"}
           IN  \A k \in 1..Len(rows) :
                   LET npi == rows[k].data["NPI"]
                       seen == \E m \in 1..(k - 1) : rows[m].data["NPI"] = npi
                       alone == \A m \in 1..Len(rows) :
                                    m # k => rows[m].row_idx # rows[k].row_idx
                   IN  /\ (_is_valid_npi_checksum(npi) /\ seen) =>
                              \E i \in onNpi(k) : found[i].level = "error"
                       /\ (_is_valid_npi_checksum(npi) /\ ~ seen /\ alone) =>
                              onNpi(k) = {}
                       /\ (npi = NpiEmpty /\ alone) => Cardinality(onNpi(k)) = 1

\* C24: the stages a run has executed are in the order intake, classify,
\* extract, vlm_assist, normalize, validate, version, export: none twice,
\* each after the stage that precedes it on its path, and export only after
\* the version stage of the same run.
C24_StageOrder ==
    \A t \in TaskIds :
        (IsGraph(tasks[t]) \/ IsSimple(tasks[t])) =>
            LET log == tasks[t].log
                rank(s) == CASE s = "intake" -> 1 [] s = "classify" -> 2
                             [] s = "extract" -> 3 [] s = "vlm_assist" -> 4
                             [] s = "normalize" -> 5 [] s = "validate" -> 6
                             [] s = "version" -> 7 [] s = "export" -> 8
                             [] OTHER -> 0
                pred(s) == CASE s = "classify" -> "intake" [] s = "extract" -> "classify"
                             [] s = "vlm_assist" -> "extract"
                             [] s = "normalize" -> "extract"
                             [] s = "validate" -> "normalize"
                             [] s = "version" -> "validate"
                             [] s = "export" -> "version"
                             [] OTHER -> None
            IN  \A k \in 1..Len(log) :
                    /\ rank(log[k]) > 0
                    /\ k = 1 => log[k] = "intake"
                    /\ k > 1 => /\ rank(log[k - 1]) < rank(log[k])
                                /\ \E m \in 1..(k - 1) : log[m] = pred(log[k])

\* a graph run has gone through all eight stages, vlm_assist included
C24_Witness ==
    \E t \in TaskIds :
        /\ IsGraph(tasks[t])
        /\ tasks[t].log = <<"intake", "classify", "extract", "vlm_assist",
                            "normalize", "validate", "version", "export">>

AssistRequired(tk) ==
    LET classification == IF IsGraph(tk) THEN tk.state.route_map
                          ELSE tk.state.classification
    IN  classification.requires_vlm \/ tk.state.force_vlm_toggle

C27_CommitMovesPointer ==
    [][\A t \in TaskIds :
         LET tk == tasks[t]
             j == tk.job_id
             v == tk.version_id
             hasError == \E i \in 1..Len(IssuesOf(v)) : IssuesOf(v)[i].level = "error"
         IN  ( /\ tk.pc = "v_job" /\ j \in JobIds
               /\ tasks'[t].pc # "v_job"
               /\ tasks'[t].faults = tk.faults )
             => /\ tasks'[t].pc = "v_audit"
                /\ jobs'[j].current_version_id = v
                /\ jobs'[j].status = IF hasError THEN "needs_review"
                                     ELSE jobs[j].status]_vars

\* C28: when a run for an existing Job returns, the status it returns is one
\* of ready, needs_review and failed, and the Job's stored status is that
\* status: no run returns leaving its Job in processing, whether or not the
\* results could be persisted.
C28_ReturnWritesTerminalStatus ==
    [][\A t \in TaskIds :
         LET tk == tasks[t]
             j == tk.job_id
         IN  ( /\ IsGraph(tk) \/ IsSimple(tk)
               /\ j \in JobIds
               /\ tk.pc # "done" /\ tasks'[t].pc = "done" )
             => /\ tasks'[t].result.status \in {"ready", "needs_review", "failed"}
                /\ jobs'[j].status = tasks'[t].result.status]_vars

\* C29: a rollback that succeeds sets the Job's current_version_id to the
\* target and appends exactly one AuditLog entry, whose before-state is the
\* pointer the Job had immediately before the rollback and whose after-state
\* is the target.
C29_RollbackAuditBeforeAfter ==
    [][\A j \in JobIds :
           LET call == tasks'[Len(tasks')]
           IN  (/\ Len(tasks') = Len(tasks) + 1
                /\ call.name = "rollback_to_version"
                /\ call.job_id = j
                /\ call.result.status = "200")
               => /\ jobs'[j].current_version_id = call.arg_version_id
                  /\ Len(audit_logs') = Len(audit_logs) + 1
                  /\ audit_logs'[Len(audit_logs')].action = "rollback"
                  /\ audit_logs'[Len(audit_logs')].before = jobs[j].current_version_id
                  /\ audit_logs'[Len(audit_logs')].after = call.arg_version_id]_vars

\* C30: when a resume loads the Records and Issues of a version id, no Commit
\* is still between the transactions that write that Version: none of the
\* Records and none of the Issues the Commit writes for it is still missing
\* from what the resume reads.
C30_ResumeLoadsWholeVersion ==
    [][\A t \in TaskIds :
         ( /\ tasks[t].name = "resume_job" /\ tasks[t].pc = "resume_load"
           /\ tasks'[t].pc = "intake" )
         => \A u \in TaskIds :
                LET tk == tasks[u]
                    v == tk.version_id
                    written == VersionerState(tk)
                IN  (v = tasks[t].arg_version_id /\ tk.pc \in {"v_records", "v_issues"})
                    => /\ tk.pc = "v_records" =>
                              NewRecords(tk.job_id, v, written.rows) \subseteq records
                       /\ written.validation_issues = <<>>]_vars

=============================================================================
